---- MODULE Spec2Model ----
(***************************************************************************)
(* Model of the base version of the riot ABM: RiotModel (model.py),        *)
(* FanAgent (agent.py), the probability helpers (utils/prob_func.py) and   *)
(* CityMap (city_map.py).                                                  *)
(*                                                                         *)
(* Positions are (col, row) pairs as in mesa's MultiGrid; the city map and *)
(* the five density maps are numpy arrays indexed [row, col], which the    *)
(* code reaches through pos[::-1] (Rev below).                             *)
(*                                                                         *)
(* An agent is the record of its fields pos, state and team.  Nothing in   *)
(* the code reads unique_id except as the scheduler's key, so the          *)
(* scheduler is kept as the bag of its agents and a grid cell as the       *)
(* length of its content list.                                             *)
(***************************************************************************)
EXTENDS Integers, Sequences, FiniteSets, Bags, TLC

\* ---------------------------------------------------------------- bounds
\* Grid size handed to RiotModel.__init__ (width, height).
Width == 3
Height == 2
\* Largest n_step handed to run_riot_model.
MaxSteps == 2
\* Scaled-down values of the sizing parameters of global_model_parameters.py
\* (5, 1000 and 500 in the source); every guard below uses them by name.
MAX_AVAILABLE_AGENT_IN_CELL == 2
INITIAL_ROUND_OF_ENTRY_HOME == 3
INITIAL_ROUND_OF_ENTRY_AWAY == 1
\* Number of agents a caller of add_agent places itself (see AddAgentCall).
MaxPlaced == 2
\* Largest arguments handed to CityMap.__init__ (width, height, n_streets,
\* street_width, exit_space_height); each argument ranges from -1.
MaxCityWidth == 6
MaxCityHeight == 2
MaxStreets == 3
MaxStreetWidth == 2
MaxExitSpace == 2

\* ------------------------------------------------------ program constants
\* Probabilities are kept in thousandths.
MIN_PROB_OF_TRANS_TO_BASE == 10
MIN_PROB_OF_TRANS_TO_RIOT == 10
MIN_PROB_OF_TRANS_TO_INJURED == 0
INITIAL_PROB_OF_RIOT == 100
INITIAL_PROB_OF_BASE == 1000 - INITIAL_PROB_OF_RIOT
DOWNWARD_EXTRA_WEIGHT == 5

\* ----------------------------------------------------------------- types
Cols == 0 .. (Width - 1)
Rows == 0 .. (Height - 1)
\* grid positions, (col, row)
Cells == Cols \X Rows
\* numpy indices, [row, col]
Indices == Rows \X Cols
States == {"base", "riot", "injured"}

\* pos[::-1]
Rev(pos) == <<pos[2], pos[1]>>

\* np.zeros(shape=(height, width))
Zeros == [i \in Indices |-> 0]

\* np.sum over a whole map
RECURSIVE SumOver(_, _)
SumOver(f, S) ==
    IF S = {} THEN 0
    ELSE LET x == CHOOSE y \in S : TRUE IN f[x] + SumOver(f, S \ {x})

np_sum(map) == SumOver(map, DOMAIN map)

\* The configurations the runs start from: the city map handed to
\* RiotModel.__init__ (None gives the all-passable map) and the two entry
\* points, none of which __init__ validates.  The first is the one of
\* run_riot_model, the second has a building in the far corner, the third
\* has both entry points on a building, the fourth has buildings on the two
\* cells below the home entry point, the fifth has a column of buildings
\* next to the street of the home entry point.
AllPassable == [i \in Indices |-> TRUE]
Configurations ==
    { [ city_map |-> AllPassable,
        entry_point_home |-> <<0, 0>>,
        entry_point_away |-> <<Width - 1, 0>> ],
      [ city_map |-> [i \in Indices |-> i # <<Height - 1, Width - 1>>],
        entry_point_home |-> <<0, 0>>,
        entry_point_away |-> <<Width - 1, 0>> ],
      [ city_map |-> [i \in Indices |-> i # <<0, 0>>],
        entry_point_home |-> <<0, 0>>,
        entry_point_away |-> <<0, 0>> ],
      [ city_map |-> [i \in Indices |-> i \notin {<<1, 0>>, <<1, 1>>}],
        entry_point_home |-> <<0, 0>>,
        entry_point_away |-> <<Width - 1, 0>> ],
      [ city_map |-> [i \in Indices |-> i[2] # 1],
        entry_point_home |-> <<0, 0>>,
        entry_point_away |-> <<Width - 1, 0>> ] }

VARIABLES
    city_map,                   \* self.city_map
    entry_point_home,           \* self.entry_point_home, (col, row)
    entry_point_away,           \* self.entry_point_away, (col, row)
    n_step,                     \* the n_step argument of run_riot_model
    city,                       \* the CityMap object a caller builds
    grid,                       \* self.grid: cell -> len of its content list
    agents,                     \* self.scheduler: bag of FanAgent fields
    current_id,                 \* Model.current_id behind next_id()
    base_state_map,
    riot_state_map,
    injured_state_map,
    home_team_map,
    away_team_map,
    entered_home_fan_counter,
    left_home_fan_counter,
    entered_away_fan_counter,
    left_away_fan_counter,
    agent_state_data,           \* rows collected by agent_state_datacollector
    control_team_data,          \* rows collected by control_team_fan_counter
    n_steps_done,               \* iterations of the loop in run_riot_model
    pc,                         \* position of the run
    agents_by_row,              \* _spread_fans: bag of agents still to spread
    agent_buffer,               \* scheduler.step: bag of agents still to activate
    raised,                     \* message of the exception the last call
                                \* raised, "none" if it returned
    drawn_from                  \* the random generators the run has drawn
                                \* from so far

config == <<city_map, entry_point_home, entry_point_away, n_step, city>>
world == <<grid, agents, current_id, base_state_map, riot_state_map,
           injured_state_map, home_team_map, away_team_map,
           entered_home_fan_counter, left_home_fan_counter,
           entered_away_fan_counter, left_away_fan_counter>>
collected == <<agent_state_data, control_team_data>>
control_but_raised == <<n_steps_done, pc, agents_by_row, agent_buffer>>
control == <<control_but_raised, raised>>
vars == <<config, world, collected, control, drawn_from>>

\* The RiotModel object as one value, for the operators below.
Model ==
    [ city_map |-> city_map,
      entry_point_home |-> entry_point_home,
      entry_point_away |-> entry_point_away,
      grid |-> grid,
      agents |-> agents,
      current_id |-> current_id,
      base_state_map |-> base_state_map,
      riot_state_map |-> riot_state_map,
      injured_state_map |-> injured_state_map,
      home_team_map |-> home_team_map,
      away_team_map |-> away_team_map,
      entered_home_fan_counter |-> entered_home_fan_counter,
      left_home_fan_counter |-> left_home_fan_counter,
      entered_away_fan_counter |-> entered_away_fan_counter,
      left_away_fan_counter |-> left_away_fan_counter,
      raised |-> raised,
      drawn_from |-> drawn_from ]

SetModel(m) ==
    /\ grid' = m.grid
    /\ agents' = m.agents
    /\ current_id' = m.current_id
    /\ base_state_map' = m.base_state_map
    /\ riot_state_map' = m.riot_state_map
    /\ injured_state_map' = m.injured_state_map
    /\ home_team_map' = m.home_team_map
    /\ away_team_map' = m.away_team_map
    /\ entered_home_fan_counter' = m.entered_home_fan_counter
    /\ left_home_fan_counter' = m.left_home_fan_counter
    /\ entered_away_fan_counter' = m.entered_away_fan_counter
    /\ left_away_fan_counter' = m.left_away_fan_counter
    /\ raised' = m.raised
    /\ drawn_from' = m.drawn_from

\* The generators behind the random calls of the code: numpy's global one
\* (np.random.choice), the global one of the random module (random.choice,
\* random.choices, random.shuffle) and the mesa Model's own, self.random,
\* which RandomActivation shuffles with.
NumpyGlobal == "numpy.random"
RandomGlobal == "random"
ModelRandom == "self.random"

\* a call that draws from the generator
Draw(m, generator) == [m EXCEPT !.drawn_from = @ \cup {generator}]

\* ------------------------------------------------------ mesa.space.MultiGrid
\* len(grid.get_cell_list_contents(pos))
get_cell_list_contents(m, pos) == m.grid[pos]

One(a) == SetToBag({a})

\* the agent a with its fields changed to those of b
Replace(m, a, b) == [m EXCEPT !.agents = (@ (-) One(a)) (+) One(b)]

\* MultiGrid.remove_agent: drop the agent from the list of its cell
grid_remove_agent(m, a) == [m EXCEPT !.grid[a.pos] = @ - 1]

\* MultiGrid.place_agent: append to the list of the cell, set agent.pos
place_agent(m, a, pos) ==
    Replace([m EXCEPT !.grid[pos] = @ + 1], a, [a EXCEPT !.pos = pos])

\* MultiGrid.move_agent: remove_agent then place_agent
move_agent(m, a, pos) == place_agent(grid_remove_agent(m, a), a, pos)

\* MultiGrid.get_neighborhood(pos, moore=True, include_center=True) on a
\* non-torus grid: the in-bounds 3x3 window, column by column.
AllCells == [i \in 1 .. (Width * Height) |-> <<(i - 1) \div Height, (i - 1) % Height>>]

Abs(x) == IF x < 0 THEN -x ELSE x

\* InWindow with a radius of two cells
InWindow_Wide(pos, cell) == Abs(cell[1] - pos[1]) <= 2 /\ Abs(cell[2] - pos[2]) <= 2

InWindow(pos, cell) == Abs(cell[1] - pos[1]) <= 1 /\ Abs(cell[2] - pos[2]) <= 1

get_neighborhood(pos) == SelectSeq(AllCells, LAMBDA cell : InWindow(pos, cell))

Range(seq) == { seq[i] : i \in DOMAIN seq }

\* ------------------------------------------------------- density map access
\* getattr(self, f"{state}_state_map")
StateMapName(state) ==
    CASE state = "base" -> "base_state_map"
      [] state = "riot" -> "riot_state_map"
      [] state = "injured" -> "injured_state_map"

\* getattr(self, f"{'home' if team else 'away'}_team_map")
TeamMapName(team) == IF team THEN "home_team_map" ELSE "away_team_map"

_add_agent_to_maps(m, pos, team, state) ==
    LET m1 == [m EXCEPT ![TeamMapName(team)][Rev(pos)] = @ + 1]
    IN  [m1 EXCEPT ![StateMapName(state)][Rev(pos)] = @ + 1]

_remove_agent_from_maps(m, pos, team, state) ==
    LET m1 == [m EXCEPT ![TeamMapName(team)][Rev(pos)] = @ - 1]
    IN  [m1 EXCEPT ![StateMapName(state)][Rev(pos)] = @ - 1]

_remove_agent_state_from_map(m, a) ==
    [m EXCEPT ![StateMapName(a.state)][Rev(a.pos)] = @ - 1]

_add_agent_state_to_map(m, a) ==
    [m EXCEPT ![StateMapName(a.state)][Rev(a.pos)] = @ + 1]

_remove_agent_team_from_map(m, a) ==
    [m EXCEPT ![TeamMapName(a.team)][Rev(a.pos)] = @ - 1]

\* _add_agent_team_to_map with the team test inverted
_add_agent_team_to_map_Inverted(m, a) ==
    [m EXCEPT ![TeamMapName(~a.team)][Rev(a.pos)] = @ + 1]

_add_agent_team_to_map(m, a) ==
    [m EXCEPT ![TeamMapName(a.team)][Rev(a.pos)] = @ + 1]

\* ------------------------------------------------------------- RiotModel
\* the messages of the ValueErrors of add_agent, of the tuple unpacking in
\* _find_agent_states_in_vicinity and of random.choices
TooManyAgents == "ValueError: Agent cannot be placed"
NothingToUnpack == "ValueError: not enough values to unpack"
BadTotalWeight == "ValueError: Total of weights must be finite"

\* CellIsFull with > for >=
CellIsFull_OffByOne(m, pos) ==
    get_cell_list_contents(m, pos) > MAX_AVAILABLE_AGENT_IN_CELL

\* the capacity test at the head of add_agent
CellIsFull(m, pos) ==
    get_cell_list_contents(m, pos) >= MAX_AVAILABLE_AGENT_IN_CELL

\* RiotModel.add_agent: raises ValueError on a full cell, otherwise creates
\* the agent with the next id, places, schedules and counts it in the maps.
add_agent(m, pos, team, state) ==
    IF CellIsFull(m, pos)
    THEN [m EXCEPT !.raised = TooManyAgents]
    ELSE LET agent == [pos |-> pos, state |-> state, team |-> team]
             m1 == [m EXCEPT !.current_id = @ + 1,
                             !.grid[pos] = @ + 1,
                             !.agents = @ (+) One(agent)]
         IN  _add_agent_to_maps(m1, pos, team, state)

\* RiotModel.remove_agent
remove_agent(m, a) ==
    LET m1 == _remove_agent_from_maps(m, a.pos, a.team, a.state)
        m2 == grid_remove_agent(m1, a)
    IN  [m2 EXCEPT !.agents = @ (-) One(a)]

\* ------------------------------------------------------------- FanAgent
\* _find_possible_n_available_cells: passable cells of the neighbourhood
_find_possible_n_available_cells(m, a) ==
    SelectSeq(get_neighborhood(a.pos), LAMBDA cell : m.city_map[Rev(cell)])

\* _find_cell_to_move with <= for <
_find_cell_to_move_OffByOne(m, potential_cells_to_move) ==
    SelectSeq(potential_cells_to_move,
              LAMBDA cell : get_cell_list_contents(m, cell)
                                <= MAX_AVAILABLE_AGENT_IN_CELL)

\* _find_cell_to_move: the cells of the list holding fewer agents than the
\* capacity
_find_cell_to_move(m, potential_cells_to_move) ==
    SelectSeq(potential_cells_to_move,
              LAMBDA cell : get_cell_list_contents(m, cell)
                                < MAX_AVAILABLE_AGENT_IN_CELL)

\* _find_available_downward_cells with >= for >
_find_available_downward_cells_NotAbove(m, a) ==
    SelectSeq(_find_cell_to_move(m, _find_possible_n_available_cells(m, a)),
              LAMBDA cell : cell[2] >= a.pos[2])

\* _find_available_downward_cells: of those, the cells of a higher row
_find_available_downward_cells(m, a) ==
    SelectSeq(_find_cell_to_move(m, _find_possible_n_available_cells(m, a)),
              LAMBDA cell : cell[2] > a.pos[2])

\* The committed relocation shared by spread_agent and _move_agent: the two
\* removals, grid.move_agent, the two additions.
Relocate(m, a, pos) ==
    LET m1 == _remove_agent_state_from_map(m, a)
        m2 == _remove_agent_team_from_map(m1, a)
        m3 == move_agent(m2, a, pos)
        moved == [a EXCEPT !.pos = pos]
        m4 == _add_agent_state_to_map(m3, moved)
    IN  _add_agent_team_to_map(m4, moved)

\* FanAgent.spread_agent: the models it can leave, one per random.choice
spread_agent(m, a) ==
    LET available_cells == _find_available_downward_cells(m, a)
    IN  IF available_cells # <<>>
        THEN { Relocate(Draw(m, RandomGlobal), a, pos) :
                 pos \in Range(available_cells) }
        ELSE { m }

\* _find_agent_states_in_vicinity: sum of one state map over the cells
_find_agent_states_in_vicinity(m, state_to_find, available_cells) ==
    LET state_map == m[StateMapName(state_to_find)]
        idx == DOMAIN available_cells
    IN  SumOver([i \in idx |-> state_map[Rev(available_cells[i])]], idx)

\* Fractions <<numerator, denominator>> with a positive denominator.
FracMax(p, q) == IF p[1] * q[2] >= q[1] * p[2] THEN p ELSE q

\* prob_func.state_change_probability, in thousandths
state_change_probability(n_of_in_state_agents, n_of_available_cell) ==
    <<1000 * n_of_in_state_agents, n_of_available_cell * MAX_AVAILABLE_AGENT_IN_CELL>>

\* The three floor-clamped relative probabilities of _set_agent_state, in
\* the order base, riot, injured.
relative_probs(m, a, available_cells) ==
    LET pos == a.pos
        n_base_agent == _find_agent_states_in_vicinity(m, "base", available_cells)
        n_riot_agent == _find_agent_states_in_vicinity(m, "riot", available_cells)
        n_riot_injured_agent_center_pos ==
            _find_agent_states_in_vicinity(m, "riot", <<pos>>)
            + _find_agent_states_in_vicinity(m, "injured", <<pos>>)
        p_injured == state_change_probability(n_riot_injured_agent_center_pos, 1)
    IN  [ base |-> FracMax(<<MIN_PROB_OF_TRANS_TO_BASE, 1>>,
                     state_change_probability(n_base_agent, Len(available_cells))),
          riot |-> FracMax(<<MIN_PROB_OF_TRANS_TO_RIOT, 1>>,
                     state_change_probability(n_riot_agent, Len(available_cells))),
          injured |-> FracMax(<<MIN_PROB_OF_TRANS_TO_INJURED, 1>>,
                     <<p_injured[1], p_injured[2] * 10>>) ]

\* np.random.choice(values, p=...): the values of non-zero probability
np_random_choice(p) == { v \in DOMAIN p : p[v][1] > 0 }

\* _set_agent_state without the removal from the map of the old state
_set_agent_state_NoRemove(m, a, state) ==
    LET m2 == Replace(Draw(m, NumpyGlobal), a, [a EXCEPT !.state = state])
    IN  _add_agent_state_to_map(m2, [a EXCEPT !.state = state])

\* FanAgent._set_agent_state for one sampled state
_set_agent_state(m, a, state) ==
    LET m1 == _remove_agent_state_from_map(m, a)
        m2 == Replace(Draw(m1, NumpyGlobal), a, [a EXCEPT !.state = state])
    IN  _add_agent_state_to_map(m2, [a EXCEPT !.state = state])

\* prob_func.cell_movement_probability: one weight per candidate cell, the
\* count in the cell times DOWNWARD_EXTRA_WEIGHT for a cell of a higher row.
\* The common positive divisor n_of_available_cell * MAX_AVAILABLE_AGENT_IN_CELL
\* is left out: the callers test the weights against zero and normalise them.
cell_movement_probability(pos, available_cells_to_move, n_of_in_team_agents) ==
    [ i \in DOMAIN available_cells_to_move |->
        IF available_cells_to_move[i][2] > pos[2]
        THEN n_of_in_team_agents[i] * DOWNWARD_EXTRA_WEIGHT
        ELSE n_of_in_team_agents[i] ]

\* itertools.accumulate
RECURSIVE accumulate(_, _)
accumulate(w, i) == IF i = 0 THEN 0 ELSE accumulate(w, i - 1) + w[i]

\* bisect.bisect(a, x, lo, hi) as random.choices calls it; a is 1-based here
\* and lo, hi are the 0-based bounds of the Python code.
RECURSIVE bisect(_, _, _, _)
bisect(a, x, lo, hi) ==
    IF lo < hi
    THEN LET mid == (lo + hi) \div 2
         IN  IF x < a[mid + 1] THEN bisect(a, x, lo, mid)
                               ELSE bisect(a, x, mid + 1, hi)
    ELSE lo

\* random.choices(population, weights=w / sum(w), k=1)[0] for a non-zero sum:
\* the 1-based indices it can return.  The normalised cumulative weights are
\* accumulate(w, i) / sum; random() * total ranges over [0, 1).  Multiplying
\* the comparison by |sum| leaves integers: x ranges over 0 .. |sum| - 1.
random_choices(w) ==
    LET n == Len(w)
        total == accumulate(w, n)
        sgn == IF total < 0 THEN -1 ELSE 1
        cum_weights == [i \in 1 .. n |-> sgn * accumulate(w, i)]
    IN  { bisect(cum_weights, x, 0, n - 1) + 1 : x \in 0 .. (sgn * total - 1) }

\* The branch of _move_agent shared by the states base and riot; density_map
\* is the own team's map for base and the riot map for riot.
MoveByDensity(m, a, available_cells_to_move, density_map) ==
    LET pos == a.pos
        n_in_cells == [i \in DOMAIN available_cells_to_move |->
                          density_map[Rev(available_cells_to_move[i])]]
        rel_probs_of_available_cells ==
            cell_movement_probability(pos, available_cells_to_move, n_in_cells)
    IN  IF \A i \in DOMAIN rel_probs_of_available_cells :
               rel_probs_of_available_cells[i] = 0
        THEN LET downward_cells == _find_available_downward_cells(m, a)
             IN  IF downward_cells # <<>>
                 THEN { Relocate(Draw(m, RandomGlobal), a, cell) :
                          cell \in Range(downward_cells) }
                 ELSE { m }
        ELSE LET m1 == _remove_agent_state_from_map(m, a)
                 m2 == _remove_agent_team_from_map(m1, a)
             IN  IF accumulate(rel_probs_of_available_cells,
                               Len(rel_probs_of_available_cells)) = 0
                 THEN \* the weights divide to inf / nan: random.choices raises
                      { [m2 EXCEPT !.raised = BadTotalWeight] }
                 ELSE { LET moved == [a EXCEPT !.pos = available_cells_to_move[i]]
                            m3 == move_agent(Draw(m2, RandomGlobal), a,
                                             available_cells_to_move[i])
                            m4 == _add_agent_state_to_map(m3, moved)
                        IN  _add_agent_team_to_map(m4, moved) :
                          i \in random_choices(rel_probs_of_available_cells) }

\* LeaveMap without the call of remove_agent
LeaveMap_NoRemove(m, a) ==
    LET m1 == _remove_agent_state_from_map(m, a)
        m2 == _remove_agent_team_from_map(m1, a)
    IN  IF a.team
        THEN [m2 EXCEPT !.left_home_fan_counter = @ + 1]
        ELSE [m2 EXCEPT !.left_away_fan_counter = @ + 1]

\* LeaveMap counting every leaver as a home fan
LeaveMap_HomeOnly(m, a) ==
    LET m1 == _remove_agent_state_from_map(m, a)
        m2 == _remove_agent_team_from_map(m1, a)
        m3 == [m2 EXCEPT !.left_home_fan_counter = @ + 1]
    IN  remove_agent(m3, a)

\* The else branch of _move_agent, taken on the exit row.
LeaveMap(m, a) ==
    LET m1 == _remove_agent_state_from_map(m, a)
        m2 == _remove_agent_team_from_map(m1, a)
        m3 == IF a.team
              THEN [m2 EXCEPT !.left_home_fan_counter = @ + 1]
              ELSE [m2 EXCEPT !.left_away_fan_counter = @ + 1]
    IN  remove_agent(m3, a)

\* FanAgent._move_agent: the models it can leave
_move_agent(m, a, potential_cell_to_move) ==
    IF a.pos[2] # Height - 1
    THEN LET available_cells_to_move == _find_cell_to_move(m, potential_cell_to_move)
         IN  IF available_cells_to_move # <<>>
             THEN CASE a.state = "base" ->
                         MoveByDensity(m, a, available_cells_to_move,
                                       m[TeamMapName(a.team)])
                    [] a.state = "riot" ->
                         MoveByDensity(m, a, available_cells_to_move, m.riot_state_map)
                    [] a.state = "injured" -> { m }
             ELSE { m }
    ELSE { LeaveMap(m, a) }

\* agent_step without the test of the injured state
agent_step_NoSink(m, a) ==
    LET available_cells_to_move == _find_possible_n_available_cells(m, a)
    IN  IF available_cells_to_move = <<>>
        THEN { [m EXCEPT !.raised = NothingToUnpack] }
        ELSE UNION { _move_agent(_set_agent_state(m, a, state),
                                 [a EXCEPT !.state = state],
                                 available_cells_to_move) :
                       state \in np_random_choice(
                                   relative_probs(m, a, available_cells_to_move)) }

\* FanAgent.step: the models it can leave, one per sampled state and move.
\* With no passable cell in the neighbourhood the unpacking of zip(*[])
\* raises ValueError.
agent_step(m, a) ==
    IF a.state # "injured"
    THEN LET available_cells_to_move == _find_possible_n_available_cells(m, a)
         IN  IF available_cells_to_move = <<>>
             THEN { [m EXCEPT !.raised = NothingToUnpack] }
             ELSE UNION { _move_agent(_set_agent_state(m, a, state),
                                      [a EXCEPT !.state = state],
                                      available_cells_to_move) :
                            state \in np_random_choice(
                                        relative_probs(m, a, available_cells_to_move)) }
    ELSE { m }

\* ---------------------------------------------------------------- CityMap
\* The CityMap object: the arguments of __init__, where the construction
\* stands ("new" before it, "built" after it, "failed" when it raised), the
\* message of the exception and the boolean grid, indexed [row, col].
NoCity == [pc |-> "none"]

CityArgs ==
    [ width : -1 .. MaxCityWidth,
      height : -1 .. MaxCityHeight,
      n_streets : -1 .. MaxStreets,
      street_width : -1 .. MaxStreetWidth,
      exit_space_height : -1 .. MaxExitSpace ]

NegativeDimensions == "ValueError: negative dimensions are not allowed"
StreetsNotPositive == "ValueError: Number of streets must be a positive integer."
StreetWidthNotPositive == "ValueError: Street width must be a positive integer."
StreetsTooWide == "ValueError: Total width of streets exceeds grid width."
BuildingTooNarrow == "ValueError: Building width must be be at least 1."

Min(x, y) == IF x < y THEN x ELSE y
Max(x, y) == IF x > y THEN x ELSE y

\* the indices a Python slice lo:hi selects in an axis of length n
SliceBound(i, n) == IF i < 0 THEN Max(i + n, 0) ELSE Min(i, n)
Slice(lo, hi, n) == SliceBound(lo, n) .. (SliceBound(hi, n) - 1)

\* np.zeros((height, width), dtype=np.bool)
np_zeros(height, width) ==
    [idx \in (0 .. (height - 1)) \X (0 .. (width - 1)) |-> FALSE]

\* self.grid[rows, cols] = True
SetTrue(city_grid, rows, cols) ==
    [idx \in DOMAIN city_grid |->
        (idx[1] \in rows /\ idx[2] \in cols) \/ city_grid[idx]]

\* CityMap.set_exit_space: self.grid[0:exit_space_height, :] = True
set_exit_space(c, exit_space_height) ==
    [c EXCEPT !.grid = SetTrue(@, Slice(0, exit_space_height, c.height),
                               0 .. (c.width - 1))]

\* the inner loop of generate_vertical_streets, from street i on
RECURSIVE CarveStreets(_, _, _, _, _)
CarveStreets(c, i, n_streets, street_width, building_width) ==
    IF i >= n_streets THEN c
    ELSE LET start_col == building_width * (i + 1) + i * street_width
             end_col == start_col + street_width
             carved == [c EXCEPT !.grid =
                           SetTrue(@, 0 .. (c.height - 1),
                                   Slice(start_col, end_col, c.width))]
         IN  CarveStreets(carved, i + 1, n_streets, street_width, building_width)

\* the outer loop, which repeats the inner one once per street
RECURSIVE CarveRounds(_, _, _, _, _)
CarveRounds(c, i, n_streets, street_width, building_width) ==
    IF i >= n_streets THEN c
    ELSE CarveRounds(CarveStreets(c, 0, n_streets, street_width, building_width),
                     i + 1, n_streets, street_width, building_width)

Fail(c, message) == [c EXCEPT !.pc = "failed", !.error = message]

\* BuildingWidth rounding up
BuildingWidth_RoundedUp(c, n_streets, street_width) ==
    (c.width - n_streets * street_width + n_streets) \div (n_streets + 1)

\* available_columns // (n_streets + 1)
BuildingWidth(c, n_streets, street_width) ==
    (c.width - n_streets * street_width) \div (n_streets + 1)

\* the test of total_street_width against the grid width
StreetsFit(c, n_streets, street_width) ==
    ~(n_streets * street_width > c.width)

\* CityMap.generate_vertical_streets
generate_vertical_streets(c, n_streets, street_width) ==
    IF n_streets <= 0 THEN Fail(c, StreetsNotPositive)
    ELSE IF street_width <= 0 THEN Fail(c, StreetWidthNotPositive)
    ELSE IF ~StreetsFit(c, n_streets, street_width) THEN Fail(c, StreetsTooWide)
    ELSE LET building_width == BuildingWidth(c, n_streets, street_width)
         IN  IF building_width < 1 THEN Fail(c, BuildingTooNarrow)
             ELSE CarveRounds(c, 0, n_streets, street_width, building_width)

\* CityMap.__init__
CityMap(args) ==
    LET c0 == [ pc |-> "built", error |-> "none",
                width |-> args.width, height |-> args.height,
                n_streets |-> args.n_streets,
                street_width |-> args.street_width,
                exit_space_height |-> args.exit_space_height,
                grid |-> << >> ]
    IN  IF args.height < 0 \/ args.width < 0
        THEN Fail(c0, NegativeDimensions)
        ELSE LET c1 == [c0 EXCEPT !.grid = np_zeros(args.height, args.width)]
                 c2 == set_exit_space(c1, args.exit_space_height)
             IN  generate_vertical_streets(c2, args.n_streets, args.street_width)

\* ------------------------------------------------------------------ Init
Init ==
    /\ \E c \in Configurations :
         /\ city_map = c.city_map
         /\ entry_point_home = c.entry_point_home
         /\ entry_point_away = c.entry_point_away
    /\ n_step \in 0 .. MaxSteps
    /\ city = NoCity
    /\ grid = [cell \in Cells |-> 0]
    /\ agents = EmptyBag
    /\ current_id = 0
    /\ base_state_map = Zeros
    /\ riot_state_map = Zeros
    /\ injured_state_map = Zeros
    /\ home_team_map = Zeros
    /\ away_team_map = Zeros
    /\ entered_home_fan_counter = 0
    /\ left_home_fan_counter = 0
    /\ entered_away_fan_counter = 0
    /\ left_away_fan_counter = 0
    /\ agent_state_data = << >>
    /\ control_team_data = << >>
    /\ n_steps_done = 0
    /\ pc = IF 0 < INITIAL_ROUND_OF_ENTRY_HOME THEN "inject_home"
            ELSE IF 0 < INITIAL_ROUND_OF_ENTRY_AWAY THEN "inject_away"
            ELSE "run"
    /\ agents_by_row = EmptyBag
    /\ agent_buffer = EmptyBag
    /\ raised = "none"
    /\ drawn_from = {}

\* ------------------------------------------------ RiotModel._init_population
\* pc is "inject_home" / "inject_away" at the head of the inner while loop of
\* a team, "spread_home" / "spread_away" inside _spread_fans, "run" in the
\* step loop of run_riot_model between two steps, "step" inside
\* scheduler.step, "done" once run_riot_model has returned and "aborted"
\* once an exception has left the run.
InjectPc(team) == IF team THEN "inject_home" ELSE "inject_away"
SpreadPc(team) == IF team THEN "spread_home" ELSE "spread_away"
entry_point(m, team) == IF team THEN m.entry_point_home ELSE m.entry_point_away

\* EntryHasRoom with <= for <
EntryHasRoom_OffByOne(m, team) ==
    get_cell_list_contents(m, entry_point(m, team)) <= MAX_AVAILABLE_AGENT_IN_CELL

\* the test of the inner while loop
EntryHasRoom(m, team) ==
    get_cell_list_contents(m, entry_point(m, team)) < MAX_AVAILABLE_AGENT_IN_CELL

\* the tests of the two outer while loops, met in program order
AwayLoopHead(m) ==
    IF m.entered_away_fan_counter < INITIAL_ROUND_OF_ENTRY_AWAY
    THEN "inject_away" ELSE "run"

HomeLoopHead(m) ==
    IF m.entered_home_fan_counter < INITIAL_ROUND_OF_ENTRY_HOME
    THEN "inject_home" ELSE AwayLoopHead(m)

LoopHead(m, team) == IF team THEN HomeLoopHead(m) ELSE AwayLoopHead(m)

\* np.random.choice(["base", "riot"], p=[INITIAL_PROB_OF_BASE, INITIAL_PROB_OF_RIOT])
InitialStates ==
    np_random_choice([base |-> <<INITIAL_PROB_OF_BASE, 1>>,
                      riot |-> <<INITIAL_PROB_OF_RIOT, 1>>])

\* One pass of the inner loop: add_agent at the entry point, then count it.
InjectAgent(team) ==
    /\ pc = InjectPc(team)
    /\ EntryHasRoom(Model, team)
    /\ \E state \in InitialStates :
         LET m1 == add_agent(Draw(Model, NumpyGlobal),
                             entry_point(Model, team), team, state)
             m2 == IF team
                   THEN [m1 EXCEPT !.entered_home_fan_counter = @ + 1]
                   ELSE [m1 EXCEPT !.entered_away_fan_counter = @ + 1]
         IN  IF m1.raised # "none"
             THEN SetModel(m1) /\ pc' = "aborted"
             ELSE SetModel(m2) /\ pc' = pc
    /\ UNCHANGED <<config, collected, n_steps_done, agents_by_row, agent_buffer>>

\* the part of a bag whose elements satisfy Test
BagFilter(bag, Test(_)) == [a \in {b \in BagToSet(bag) : Test(b)} |-> bag[a]]

\* The inner loop ends and _spread_fans starts: the agents of the team, to
\* be grouped by the row they are on.
SpreadFansBegin(team) ==
    /\ pc = InjectPc(team)
    /\ ~EntryHasRoom(Model, team)
    /\ agents_by_row' = BagFilter(agents, LAMBDA a : a.team = team)
    /\ drawn_from' = drawn_from \cup {RandomGlobal}
    /\ pc' = SpreadPc(team)
    /\ UNCHANGED <<config, world, collected, n_steps_done, agent_buffer, raised>>

\* NextToSpread with the rows in ascending order
NextToSpread_Ascending ==
    { a \in BagToSet(agents_by_row) :
        \A b \in BagToSet(agents_by_row) : b.pos[2] >= a.pos[2] }

\* The agents _spread_fans can handle next: rows in descending order, any
\* order within a row (random.shuffle).
NextToSpread ==
    { a \in BagToSet(agents_by_row) :
        \A b \in BagToSet(agents_by_row) : b.pos[2] <= a.pos[2] }

SpreadFansAgent(team) ==
    /\ pc = SpreadPc(team)
    /\ \E a \in NextToSpread :
         /\ \E m1 \in spread_agent(Model, a) : SetModel(m1)
         /\ agents_by_row' = agents_by_row (-) One(a)
    /\ UNCHANGED <<config, collected, n_steps_done, pc, agent_buffer>>

\* _spread_fans returns and the outer loop test is made again.
SpreadFansEnd(team) ==
    /\ pc = SpreadPc(team)
    /\ agents_by_row = EmptyBag
    /\ pc' = LoopHead(Model, team)
    /\ UNCHANGED <<config, world, collected, n_steps_done, agents_by_row,
                   agent_buffer, raised, drawn_from>>

\* ------------------------------------------------------------ RiotModel.step
\* LoopTest running the loop once more
LoopTest_OffByOne == n_steps_done <= n_step

\* for _ in trange(n_step)
LoopTest == n_steps_done < n_step

\* scheduler.step takes the scheduled agents ...
StepBegin ==
    /\ pc = "run"
    /\ LoopTest
    /\ agent_buffer' = agents
    /\ drawn_from' = drawn_from \cup {ModelRandom}
    /\ pc' = "step"
    /\ raised' = "none"
    /\ UNCHANGED <<config, world, collected, n_steps_done, agents_by_row>>

\* ... and activates them in a shuffled order, skipping removed ones.
AgentStep ==
    /\ pc = "step"
    /\ \E a \in BagToSet(agent_buffer) :
         /\ agent_buffer' = agent_buffer (-) One(a)
         /\ IF BagIn(a, agents)
            THEN \E m1 \in agent_step(Model, a) :
                   /\ SetModel(m1)
                   /\ pc' = IF m1.raised # "none" THEN "aborted" ELSE pc
            ELSE UNCHANGED <<world, raised, pc, drawn_from>>
    /\ UNCHANGED <<config, collected, n_steps_done, agents_by_row>>

\* The two DataCollector.collect calls that end step().
StepEnd ==
    /\ pc = "step"
    /\ agent_buffer = EmptyBag
    /\ agent_state_data' =
         Append(agent_state_data,
                [Base |-> np_sum(base_state_map),
                 Riot |-> np_sum(riot_state_map),
                 Injured |-> np_sum(injured_state_map)])
    /\ control_team_data' =
         Append(control_team_data,
                [Home |-> np_sum(home_team_map), Away |-> np_sum(away_team_map)])
    /\ n_steps_done' = n_steps_done + 1
    /\ pc' = "run"
    /\ UNCHANGED <<config, world, agents_by_row, agent_buffer, raised, drawn_from>>

\* The loop of run_riot_model is over: the two series are read from the
\* collectors and returned.
Return ==
    /\ pc = "run"
    /\ ~LoopTest
    /\ pc' = "done"
    /\ UNCHANGED <<config, world, collected, n_steps_done, agents_by_row,
                   agent_buffer, raised, drawn_from>>

\* --------------------------------------------------------- specifications
\* _init_population
Populate ==
    \/ InjectAgent(TRUE)
    \/ InjectAgent(FALSE)
    \/ SpreadFansBegin(TRUE)
    \/ SpreadFansBegin(FALSE)
    \/ SpreadFansAgent(TRUE)
    \/ SpreadFansAgent(FALSE)
    \/ SpreadFansEnd(TRUE)
    \/ SpreadFansEnd(FALSE)

\* run_riot_model: _init_population, then the step loop.
Next ==
    \/ Populate
    \/ StepBegin
    \/ AgentStep
    \/ StepEnd
    \/ Return

Spec == Init /\ [][Next]_vars

\* A caller that populates the model and then places agents itself through
\* the public add_agent, MaxPlaced times at most.
PlacedByCaller == current_id - (entered_home_fan_counter + entered_away_fan_counter)

AddAgentCall(pos, team, state) ==
    /\ pc = "run"
    /\ PlacedByCaller < MaxPlaced
    /\ SetModel(add_agent([Model EXCEPT !.raised = "none"], pos, team, state))
    /\ UNCHANGED <<config, collected, control_but_raised>>

NextApi ==
    \/ Populate
    \/ \E pos \in Cells, team \in BOOLEAN, state \in States :
         AddAgentCall(pos, team, state)

InitApi == Init /\ n_step = 0

SpecApi == InitApi /\ [][NextApi]_vars

\* Scenario A: a fully passable grid built without _init_population, on
\* which a caller places MAX_AVAILABLE_AGENT_IN_CELL home agents in state
\* base at the home entry point through add_agent and then calls step().
InitScenarioA ==
    /\ city_map = AllPassable
    /\ entry_point_home = <<0, 0>>
    /\ entry_point_away = <<Width - 1, 0>>
    /\ n_step = MaxSteps
    /\ city = NoCity
    /\ grid = [cell \in Cells |-> 0]
    /\ agents = EmptyBag
    /\ current_id = 0
    /\ base_state_map = Zeros
    /\ riot_state_map = Zeros
    /\ injured_state_map = Zeros
    /\ home_team_map = Zeros
    /\ away_team_map = Zeros
    /\ entered_home_fan_counter = 0
    /\ left_home_fan_counter = 0
    /\ entered_away_fan_counter = 0
    /\ left_away_fan_counter = 0
    /\ agent_state_data = << >>
    /\ control_team_data = << >>
    /\ n_steps_done = 0
    /\ pc = "run"
    /\ agents_by_row = EmptyBag
    /\ agent_buffer = EmptyBag
    /\ raised = "none"
    /\ drawn_from = {}

ScenarioInject ==
    /\ pc = "run"
    /\ n_steps_done = 0
    /\ current_id < MAX_AVAILABLE_AGENT_IN_CELL
    /\ SetModel(add_agent(Model, entry_point_home, TRUE, "base"))
    /\ UNCHANGED <<config, collected, control_but_raised>>

NextScenarioA ==
    \/ ScenarioInject
    \/ StepBegin
    \/ AgentStep
    \/ StepEnd

SpecScenarioA == InitScenarioA /\ [][NextScenarioA]_vars

\* A caller that builds a CityMap from its arguments.
InitCityMap ==
    /\ \E args \in CityArgs : city = [pc |-> "new", args |-> args]
    /\ city_map = AllPassable
    /\ entry_point_home = <<0, 0>>
    /\ entry_point_away = <<Width - 1, 0>>
    /\ n_step = 0
    /\ grid = [cell \in Cells |-> 0]
    /\ agents = EmptyBag
    /\ current_id = 0
    /\ base_state_map = Zeros
    /\ riot_state_map = Zeros
    /\ injured_state_map = Zeros
    /\ home_team_map = Zeros
    /\ away_team_map = Zeros
    /\ entered_home_fan_counter = 0
    /\ left_home_fan_counter = 0
    /\ entered_away_fan_counter = 0
    /\ left_away_fan_counter = 0
    /\ agent_state_data = << >>
    /\ control_team_data = << >>
    /\ n_steps_done = 0
    /\ pc = "run"
    /\ agents_by_row = EmptyBag
    /\ agent_buffer = EmptyBag
    /\ raised = "none"
    /\ drawn_from = {}

Construct ==
    /\ city.pc = "new"
    /\ city' = CityMap(city.args)
    /\ UNCHANGED <<city_map, entry_point_home, entry_point_away, n_step,
                   world, collected, control, drawn_from>>

NextCityMap == Construct

SpecCityMap == InitCityMap /\ [][NextCityMap]_vars

\* base[c] + riot[c] + injured[c], home[c] + away[c] and the occupancy of c
StateSum(cell) ==
    base_state_map[Rev(cell)] + riot_state_map[Rev(cell)] + injured_state_map[Rev(cell)]
TeamSum(cell) == home_team_map[Rev(cell)] + away_team_map[Rev(cell)]
\* number of scheduled agents satisfying Test
CountAgents(Test(_)) == BagCardinality(BagFilter(agents, Test))
Occupancy(cell) == CountAgents(LAMBDA a : a.pos = cell)

TypeOK ==
    /\ pc \in {"inject_home", "inject_away", "spread_home", "spread_away",
               "run", "step", "aborted", "done"}
    /\ \A a \in BagToSet(agents) : a.pos \in Cells /\ a.state \in States
    /\ \A cell \in Cells : grid[cell] = Occupancy(cell)

\* ------------------------------------------------------------ properties
Maps == <<base_state_map, riot_state_map, injured_state_map,
          home_team_map, away_team_map>>

\* C1: after population injection and after every step(), for every cell,
\* base + riot + injured = home + away = number of live agents in the cell.
C1_MapConsistency ==
    pc = "run" =>
        \A cell \in Cells :
            /\ StateSum(cell) = TeamSum(cell)
            /\ TeamSum(cell) = Occupancy(cell)

\* the agent activated by a step of scheduler.step
Activated(a) == pc = "step" /\ agent_buffer' = agent_buffer (-) One(a)

OwnTeamMap(a) == IF a.team THEN home_team_map ELSE away_team_map
OtherTeamMap(a) == IF a.team THEN away_team_map ELSE home_team_map
Left(team) == IF team THEN left_home_fan_counter ELSE left_away_fan_counter
Entered(team) == IF team THEN entered_home_fan_counter ELSE entered_away_fan_counter

\* C2: an agent activated on the exit row is removed from the scheduler and
\* the grid; its team's map and the state maps at its cell lose exactly one
\* agent, every other map entry is unchanged; its team's left counter grows
\* by one and the other team's left counter is unchanged.
C2_ExitRowRemoval ==
    [][\A a \in BagToSet(agent_buffer) :
         Activated(a) /\ a.pos[2] = Height - 1 =>
            /\ agents' = agents (-) One(a)
            /\ grid' = [grid EXCEPT ![a.pos] = @ - 1]
            /\ OwnTeamMap(a)' = [OwnTeamMap(a) EXCEPT ![Rev(a.pos)] = @ - 1]
            /\ OtherTeamMap(a)' = OtherTeamMap(a)
            /\ StateSum(a.pos)' = StateSum(a.pos) - 1
            /\ \A cell \in Cells \ {a.pos} :
                 /\ base_state_map'[Rev(cell)] = base_state_map[Rev(cell)]
                 /\ riot_state_map'[Rev(cell)] = riot_state_map[Rev(cell)]
                 /\ injured_state_map'[Rev(cell)] = injured_state_map[Rev(cell)]
            /\ Left(a.team)' = Left(a.team) + 1
            /\ Left(~a.team)' = Left(~a.team)]_vars

\* C3: every cell holds at most MAX_AVAILABLE_AGENT_IN_CELL agents, in every
\* state, mid-tick included.
C3_Capacity ==
    \A cell \in Cells :
        /\ grid[cell] <= MAX_AVAILABLE_AGENT_IN_CELL
        /\ Occupancy(cell) <= MAX_AVAILABLE_AGENT_IN_CELL

\* a cell is full in the middle of a tick, after an agent has moved into it
C3_Witness ==
    /\ pc = "step"
    /\ agent_buffer # agents
    /\ \E cell \in Cells :
         /\ cell[2] # Height - 1
         /\ grid[cell] = MAX_AVAILABLE_AGENT_IN_CELL
         /\ \E a \in BagToSet(agents) : a.pos = cell /\ ~BagIn(a, agent_buffer)

\* C4: after population injection and after every step(), entered - left of
\* a team is the number of scheduled agents of the team.
C4_Conservation ==
    pc = "run" =>
        \A team \in BOOLEAN :
            Entered(team) - Left(team) = CountAgents(LAMBDA a : a.team = team)

\* a tick has ended in which agents of both teams left, with agents remaining
C4_Witness ==
    /\ pc = "run"
    /\ left_home_fan_counter > 0
    /\ left_away_fan_counter > 0
    /\ agents # EmptyBag

\* C5: the rows collected by a step() are the true counts of the scheduled
\* agents at the end of the tick, per state and per team, and
\* Base + Riot + Injured = Home + Away = number of scheduled agents.
C5_AggregatesAreCounts ==
    (pc = "run" /\ n_steps_done > 0) =>
        LET states == agent_state_data[Len(agent_state_data)]
            teams == control_team_data[Len(control_team_data)]
        IN  /\ states.Base = CountAgents(LAMBDA a : a.state = "base")
            /\ states.Riot = CountAgents(LAMBDA a : a.state = "riot")
            /\ states.Injured = CountAgents(LAMBDA a : a.state = "injured")
            /\ teams.Home = CountAgents(LAMBDA a : a.team)
            /\ teams.Away = CountAgents(LAMBDA a : ~a.team)
            /\ states.Base + states.Riot + states.Injured = BagCardinality(agents)
            /\ teams.Home + teams.Away = BagCardinality(agents)

\* C6: no entry of a density map is ever negative.
C6_NoUnderflow ==
    \A i \in 1 .. 5 : \A idx \in Indices : Maps[i][idx] >= 0

\* C7: every scheduled agent stands on a passable cell.
C7_PositionsPassable ==
    \A a \in BagToSet(agents) : city_map[Rev(a.pos)]

\* C8: add_agent on a cell that holds MAX_AVAILABLE_AGENT_IN_CELL agents
\* raises and leaves the grid, the scheduler, the five maps and the counters
\* as they were.
C8_CapacityError ==
    [][\A pos \in Cells, team \in BOOLEAN, state \in States :
         (AddAgentCall(pos, team, state)
            /\ grid[pos] >= MAX_AVAILABLE_AGENT_IN_CELL) =>
                (raised' = TooManyAgents /\ UNCHANGED world)]_vars

\* the caller's add_agent has raised on a full cell
C8_Witness ==
    /\ pc = "run"
    /\ raised = TooManyAgents
    /\ \E cell \in Cells : grid[cell] = MAX_AVAILABLE_AGENT_IN_CELL

\* C9: no add_agent call of _init_population raises: while the population
\* is injected no exception is pending, and none is of add_agent afterwards.
C9_InflowNeverRaises ==
    /\ pc \in {"inject_home", "inject_away", "spread_home", "spread_away"}
         => raised = "none"
    /\ raised # TooManyAgents

\* an entry cell has been filled to capacity by the inner loop
C9_Witness ==
    /\ pc = "spread_away"
    /\ grid[entry_point_away] = MAX_AVAILABLE_AGENT_IN_CELL
    /\ entered_away_fan_counter > 0
    /\ entered_home_fan_counter > 0

\* free places on the passable cells of the grid
FreeCapacity ==
    SumOver([idx \in Indices |->
                IF city_map[idx]
                THEN MAX_AVAILABLE_AGENT_IN_CELL - grid[Rev(idx)]
                ELSE 0], Indices)

Target(team) ==
    IF team THEN INITIAL_ROUND_OF_ENTRY_HOME ELSE INITIAL_ROUND_OF_ENTRY_AWAY

\* the inner loop of the team is over with the target not reached, and
\* _spread_fans will move no agent of the team: the outer loop repeats
\* this state for ever
InjectionStuck(team) ==
    /\ pc = InjectPc(team)
    /\ Entered(team) < Target(team)
    /\ ~EntryHasRoom(Model, team)
    /\ \A a \in BagToSet(agents) :
         a.team = team => _find_available_downward_cells(Model, a) = <<>>

\* C10: when the injection of a team is over, its entered counter is exactly
\* its target.
C10_InjectionStopsAtTarget ==
    /\ pc \notin {"inject_home", "spread_home"}
         => entered_home_fan_counter = INITIAL_ROUND_OF_ENTRY_HOME
    /\ pc \notin {"inject_home", "spread_home", "inject_away", "spread_away"}
         => entered_away_fan_counter = INITIAL_ROUND_OF_ENTRY_AWAY

\* C11: population injection terminates: while the passable cells have free
\* capacity for target_count more agents, the inject+spread loop of a team
\* is never at its head with the entry cell full, the target not reached and
\* no agent of the team able to relocate (the state it would repeat for ever).
C11_InjectionTerminates ==
    \A team \in BOOLEAN :
        FreeCapacity >= Target(team) => ~InjectionStuck(team)

\* number of scheduled injured agents standing on the cell
InjuredAt(cell) == CountAgents(LAMBDA a : a.state = "injured" /\ a.pos = cell)

\* C12: injured is a sink: no step of the run takes an injured agent out of
\* its state or its cell (actions change one agent at a time, so the number
\* of injured agents of a cell never falls), and the activation of an agent
\* that was injured at the start of the tick leaves the maps, the grid, the
\* scheduler and the counters unchanged.
C12_InjuredIsSink ==
    [][/\ \A cell \in Cells : InjuredAt(cell)' >= InjuredAt(cell)
       /\ \A a \in BagToSet(agent_buffer) :
            (Activated(a) /\ a.state = "injured") =>
                (UNCHANGED world /\ raised' = raised)]_vars

\* a tick that started with an injured agent has activated every agent
C12_Witness ==
    /\ pc = "step"
    /\ agent_buffer = EmptyBag
    /\ Len(agent_state_data) >= 1
    /\ agent_state_data[Len(agent_state_data)].Injured > 0
    /\ \E a \in BagToSet(agents) : a.state = "injured"

\* C13: at every activation of a non-injured agent each of the three next
\* states has a strictly positive floor-clamped score.
C13_NoTransitionExcluded ==
    pc = "step" =>
        \A a \in BagToSet(agent_buffer) :
            LET available_cells == _find_possible_n_available_cells(Model, a)
            IN  (a.state # "injured" /\ available_cells # <<>>) =>
                    \A state \in States :
                        relative_probs(Model, a, available_cells)[state][1] > 0

\* the weights _move_agent hands to cell_movement_probability when the
\* agent a, not on the exit row, has sampled the state base or riot
MovementWeights(m, a, state) ==
    LET m1 == _set_agent_state(m, a, state)
        available_cells_to_move ==
            _find_cell_to_move(m1, _find_possible_n_available_cells(m, a))
        density_map == IF state = "base" THEN m1[TeamMapName(a.team)]
                                         ELSE m1.riot_state_map
    IN  cell_movement_probability(
            a.pos, available_cells_to_move,
            [i \in DOMAIN available_cells_to_move |->
                density_map[Rev(available_cells_to_move[i])]])

\* C14: whenever a non-injured agent samples its target by weight (not all
\* candidate weights are zero), every weight is >= 0 and their sum is > 0.
C14_WeightsWellFormed ==
    pc = "step" =>
        \A a \in BagToSet(agent_buffer) :
            LET potential == _find_possible_n_available_cells(Model, a)
            IN  (a.state # "injured" /\ a.pos[2] # Height - 1 /\ potential # <<>>) =>
                    \A state \in np_random_choice(relative_probs(Model, a, potential))
                                    \ {"injured"} :
                        LET w == MovementWeights(Model, a, state)
                        IN  (\E i \in DOMAIN w : w[i] # 0) =>
                                /\ \A i \in DOMAIN w : w[i] >= 0
                                /\ accumulate(w, Len(w)) > 0

\* the first step() was called with exactly MAX_AVAILABLE_AGENT_IN_CELL
\* home agents, all base, on the entry cell, and has returned
ScenarioAStepped ==
    /\ current_id = MAX_AVAILABLE_AGENT_IN_CELL
    /\ Len(agent_state_data) >= 1

\* C15: Scenario A: after the first step() the grid-wide sum of the base
\* map and of the home map both equal the number of injected agents.
C15_ScenarioA ==
    ScenarioAStepped =>
        /\ agent_state_data[1].Base = MAX_AVAILABLE_AGENT_IN_CELL
        /\ control_team_data[1].Home = MAX_AVAILABLE_AGENT_IN_CELL

\* C15 as amended: after the first step() the home map sums to the number
\* of injected agents and so do the three state maps together (no agent
\* has left; agents may have changed state).
C15_ScenarioA_Amended ==
    ScenarioAStepped =>
        /\ control_team_data[1].Home = MAX_AVAILABLE_AGENT_IN_CELL
        /\ control_team_data[1].Away = 0
        /\ agent_state_data[1].Base + agent_state_data[1].Riot
             + agent_state_data[1].Injured = MAX_AVAILABLE_AGENT_IN_CELL
        /\ n_steps_done = 1 /\ pc = "run" =>
              /\ BagCardinality(agents) = MAX_AVAILABLE_AGENT_IN_CELL
              /\ left_home_fan_counter = 0

\* the step of Scenario A has ended with an agent moved off the entry cell
\* and an agent no longer in state base
C15_Witness ==
    /\ ScenarioAStepped
    /\ n_steps_done = 1
    /\ pc = "run"
    /\ agent_state_data[1].Base < MAX_AVAILABLE_AGENT_IN_CELL
    /\ \E a \in BagToSet(agents) : a.pos # entry_point_home

\* C16: every random decision of a run is drawn from one seedable source
\* owned by the model (its self.random, which a seed given to the model
\* sets), so that the seed determines the run.
C16_OneSeedableSource == drawn_from \subseteq {ModelRandom}

\* the series is as it was, or has one more row, the k-th after k steps
Appended(series, series_after, k) ==
    \/ series_after = series
    \/ /\ Len(series_after) = Len(series) + 1
       /\ SubSeq(series_after, 1, Len(series)) = series
       /\ Len(series_after) = k

\* C17: run_riot_model(n_step) returns after exactly n_step calls of step()
\* with series of exactly n_step rows; rows are only ever appended, the k-th
\* by the k-th step(); with n_step = 0 the series are empty and nothing
\* changes once the population is injected.
C17_RunLength ==
    /\ [](pc = "done" =>
            /\ n_steps_done = n_step
            /\ Len(agent_state_data) = n_step
            /\ Len(control_team_data) = n_step)
    /\ [][/\ Appended(agent_state_data, agent_state_data', n_steps_done')
          /\ Appended(control_team_data, control_team_data', n_steps_done')
          /\ (n_step = 0 /\ pc \in {"run", "done"}) =>
                 UNCHANGED <<world, collected>>]_vars

\* a run of two steps has returned
C17_Witness ==
    /\ pc = "done"
    /\ n_step >= 2
    /\ Len(agent_state_data) = n_step

\* a run of no step has returned
C17_WitnessEmpty ==
    /\ pc = "done"
    /\ n_step = 0
    /\ agents # EmptyBag

\* C18: the construction of a CityMap fails if and only if n_streets <= 0,
\* or street_width <= 0, or n_streets * street_width > width, or
\* (width - n_streets * street_width) // (n_streets + 1) < 1.
C18_ConstructionFails ==
    city.pc \in {"built", "failed"} =>
        (city.pc = "failed" <=>
            \/ city.n_streets <= 0
            \/ city.street_width <= 0
            \/ city.n_streets * city.street_width > city.width
            \/ (city.width - city.n_streets * city.street_width)
                  \div (city.n_streets + 1) < 1)

\* C18 as amended: ... if and only if height < 0, or one of the four
\* conditions on the streets holds.
C18_ConstructionFails_Amended ==
    city.pc \in {"built", "failed"} =>
        (city.pc = "failed" <=>
            \/ city.height < 0
            \/ city.n_streets <= 0
            \/ city.street_width <= 0
            \/ city.n_streets * city.street_width > city.width
            \/ (city.width - city.n_streets * city.street_width)
                  \div (city.n_streets + 1) < 1)

\* a map whose streets fit but whose buildings would be narrower than one
\* cell has been refused
C18_Witness ==
    /\ city.pc = "failed"
    /\ city.error = BuildingTooNarrow
    /\ city.n_streets >= 2

\* the columns of the i-th corridor, with b the building width
Corridor(c, i) ==
    LET b == (c.width - c.n_streets * c.street_width) \div (c.n_streets + 1)
    IN  (b * (i + 1) + i * c.street_width) ..
            (b * (i + 1) + (i + 1) * c.street_width - 1)

\* C19: in a CityMap that was built, cell (row, col) is passable if and only
\* if row < exit_space_height or col lies in one of the n_streets
\* corridors; the corridors are pairwise disjoint and lie inside [0, width).
C19_GridLayout ==
    city.pc = "built" =>
        LET streets == 0 .. (city.n_streets - 1)
        IN  /\ \A idx \in DOMAIN city.grid :
                 city.grid[idx] <=>
                    \/ idx[1] < city.exit_space_height
                    \/ \E i \in streets : idx[2] \in Corridor(city, i)
            /\ \A i, j \in streets :
                 i # j => Corridor(city, i) \cap Corridor(city, j) = {}
            /\ \A i \in streets : Corridor(city, i) \subseteq 0 .. (city.width - 1)

\* scheduled agents standing on the exit row
OnExitRow == BagFilter(agents, LAMBDA a : a.pos[2] = Height - 1)

\* C20: every agent that is on the exit row at the start of a tick is
\* removed during that tick: its activation takes it out of the scheduler
\* and of the grid, a tick ends only when every agent of its snapshot has
\* been activated, and no injured agent is on the exit row at a tick
\* boundary.
C20_ExitRowCleared ==
    /\ [][/\ \A a \in BagToSet(agent_buffer) :
                (Activated(a) /\ a.pos[2] = Height - 1) =>
                    (/\ agents' = agents (-) One(a)
                     /\ grid' = [grid EXCEPT ![a.pos] = @ - 1])
          /\ (pc = "step" /\ pc' = "run") => agent_buffer = EmptyBag]_vars
    /\ [](pc \in {"run", "done"} =>
            \A a \in BagToSet(OnExitRow) : a.state # "injured")

\* a tick has ended in which agents left from the exit row and others
\* reached it
C20_Witness ==
    /\ pc = "run"
    /\ n_steps_done >= 1
    /\ left_home_fan_counter + left_away_fan_counter > 0
    /\ OnExitRow # EmptyBag

\* the candidate cells of agent a: cells of its clipped Moore neighbourhood,
\* own cell included, that are passable and hold fewer agents than the
\* capacity
Candidates(a) ==
    { cell \in Cells : /\ Abs(cell[1] - a.pos[1]) <= 1
                       /\ Abs(cell[2] - a.pos[2]) <= 1
                       /\ city_map[Rev(cell)]
                       /\ grid[cell] < MAX_AVAILABLE_AGENT_IN_CELL }

\* the fields an activated agent of the team can have afterwards
AgentsOfTeam(team) == [pos : Cells, state : States, team : {team}]

\* the step changes the scheduled agents by turning a into b, at most
Becomes(a, b) == agents' = (agents (-) One(a)) (+) One(b)

\* C21: move legality: the activation of an agent that is not on the exit
\* row removes no agent and changes the position of no other agent; if it
\* changes the agent's position, the new cell is a cell of its clipped
\* Moore neighbourhood that is passable and held fewer agents than the
\* capacity before the move, and the grid follows; if there is no such
\* cell, the agent's position, the grid and the two team maps are unchanged.
C21_MoveLegality ==
    [][\A a \in BagToSet(agent_buffer) :
         (Activated(a) /\ BagIn(a, agents) /\ a.pos[2] # Height - 1) =>
            \E b \in AgentsOfTeam(a.team) :
               /\ Becomes(a, b)
               /\ (b.pos # a.pos) =>
                     (/\ b.pos \in Candidates(a)
                      /\ grid' = [grid EXCEPT ![a.pos] = @ - 1,
                                               ![b.pos] = @ + 1])
               /\ (b.pos = a.pos) => (grid' = grid)
               /\ (Candidates(a) = {}) =>
                     (/\ b.pos = a.pos
                      /\ grid' = grid
                      /\ home_team_map' = home_team_map
                      /\ away_team_map' = away_team_map)]_vars

\* an agent activated in the running tick, in state riot, has moved down to
\* the exit row, into a cell that is full now
C21_Witness ==
    /\ pc = "step"
    /\ \E b \in BagToSet(agents) :
         /\ ~BagIn(b, agent_buffer)
         /\ b.pos[2] = Height - 1
         /\ b.state = "riot"
         /\ grid[b.pos] = MAX_AVAILABLE_AGENT_IN_CELL

\* the count of the candidate cell in the map the movement of a reads once
\* a has sampled the state: the map of its own team for base, the riot map
\* for riot, in which a then counts on its own cell
RelevantCount(a, state, cell) ==
    IF state = "base"
    THEN OwnTeamMap(a)[Rev(cell)]
    ELSE riot_state_map[Rev(cell)]
           + (IF cell = a.pos /\ a.state # "riot" THEN 1 ELSE 0)

\* the weight of the candidate cell
Weight(a, state, cell) ==
    IF cell[2] > a.pos[2]
    THEN RelevantCount(a, state, cell) * DOWNWARD_EXTRA_WEIGHT
    ELSE RelevantCount(a, state, cell)

\* the candidate cells of a row strictly greater than the row of a
Downward(a) == { cell \in Candidates(a) : cell[2] > a.pos[2] }

\* C22: zero-weight fallback: when a non-injured agent off the exit row is
\* activated, samples base or riot and every candidate weight is exactly
\* zero, it moves to a candidate of a strictly greater row, or keeps its
\* cell if there is no such candidate: its row never decreases and it never
\* moves sideways.
C22_ZeroWeightFallback ==
    [][\A a \in BagToSet(agent_buffer) :
         (Activated(a) /\ BagIn(a, agents) /\ a.state # "injured"
            /\ a.pos[2] # Height - 1) =>
            \A b \in AgentsOfTeam(a.team) :
               (/\ Becomes(a, b)
                /\ b.state # "injured"
                /\ \A cell \in Candidates(a) : Weight(a, b.state, cell) = 0) =>
                   (/\ b.pos = a.pos \/ b.pos \in Downward(a)
                    /\ (Downward(a) = {}) => (b.pos = a.pos)
                    /\ b.pos[2] >= a.pos[2]
                    /\ (b.pos[2] = a.pos[2]) => (b.pos = a.pos))]_vars

\* An agent activated in the running tick stands on the exit row in state
\* base, alone of its team in its cell, and no agent of its team has left:
\* the map of its team never was wrong, the cell had count and weight zero
\* when the agent chose it, so that it came by the fallback.
C22_Witness ==
    /\ pc = "step"
    /\ \E b \in BagToSet(agents) :
         /\ ~BagIn(b, agent_buffer)
         /\ b.pos[2] = Height - 1
         /\ b.state = "base"
         /\ Left(b.team) = 0
         /\ OwnTeamMap(b)[Rev(b.pos)] = 1

\* C23: spread pass: a pass for a team starts with every scheduled agent of
\* the team pending once and no agent of the other team; each of its steps
\* takes one pending agent, of a row no lower than that of any other pending
\* agent, off the list for good, and either leaves it where it is or moves
\* it to a candidate cell of a strictly greater row (passable, in its Moore
\* neighbourhood, holding fewer agents than the capacity); no state changes,
\* no agent is removed, no other agent moves and no counter changes.
C23_SpreadPass ==
    [][\A team \in BOOLEAN :
         /\ (pc = InjectPc(team) /\ pc' = SpreadPc(team)) =>
               (/\ \A r \in AgentsOfTeam(team) :
                      CopiesIn(r, agents_by_row') = CopiesIn(r, agents)
                /\ \A r \in BagToSet(agents_by_row') : r.team = team
                /\ UNCHANGED world)
         /\ (pc = SpreadPc(team) /\ pc' = pc) =>
               \E a \in BagToSet(agents_by_row) :
                  /\ agents_by_row' = agents_by_row (-) One(a)
                  /\ a.team = team
                  /\ BagIn(a, agents)
                  /\ \A p \in BagToSet(agents_by_row) : p.pos[2] <= a.pos[2]
                  /\ \E b \in AgentsOfTeam(team) :
                        /\ Becomes(a, b)
                        /\ b.state = a.state
                        /\ b.pos = a.pos \/ b.pos \in Downward(a)
                        /\ grid' = [[grid EXCEPT ![a.pos] = @ - 1]
                                       EXCEPT ![b.pos] = @ + 1]
                  /\ UNCHANGED <<entered_home_fan_counter, left_home_fan_counter,
                                 entered_away_fan_counter, left_away_fan_counter>>
         /\ (pc = SpreadPc(team) /\ pc' # pc) =>
               (agents_by_row = EmptyBag /\ UNCHANGED world)]_vars

\* in the second pass of the home team, which started with agents on both
\* rows, an agent has left the entry cell and another is still pending
C23_Witness ==
    /\ pc = "spread_home"
    /\ entered_home_fan_counter > MAX_AVAILABLE_AGENT_IN_CELL
    /\ grid[entry_point_home] < MAX_AVAILABLE_AGENT_IN_CELL
    /\ agents_by_row # EmptyBag
    /\ \E a \in BagToSet(agents) : a.team /\ a.pos[2] = Height - 1

\* 1 if the condition holds, else 0
Indicator(condition) == IF condition THEN 1 ELSE 0

\* C24: state-transition frame: whatever state a non-injured agent samples
\* when it is activated, _set_agent_state changes only that agent's state
\* and, at its own cell, the map of its old state by -1 and the map of its
\* new state by +1 (no net change when the two are the same); the sum of the
\* three state maps at every cell, the two team maps, the grid, every
\* position, the scheduled agents and the counters stay as they are.
C24_TransitionFrame ==
    pc = "step" =>
        \A a \in BagToSet(agent_buffer) :
            LET available_cells == _find_possible_n_available_cells(Model, a)
            IN  (BagIn(a, agents) /\ a.state # "injured" /\ available_cells # <<>>) =>
                  \A state \in np_random_choice(
                                  relative_probs(Model, a, available_cells)) :
                     LET m1 == _set_agent_state(Model, a, state)
                     IN  /\ m1.agents = (agents (-) One(a))
                                           (+) One([a EXCEPT !.state = state])
                         /\ \A s \in States : \A idx \in Indices :
                              m1[StateMapName(s)][idx] =
                                 Model[StateMapName(s)][idx]
                                   + Indicator(idx = Rev(a.pos) /\ s = state)
                                   - Indicator(idx = Rev(a.pos) /\ s = a.state)
                         /\ \A idx \in Indices :
                              m1.base_state_map[idx] + m1.riot_state_map[idx]
                                 + m1.injured_state_map[idx] = StateSum(Rev(idx))
                         /\ m1.home_team_map = home_team_map
                         /\ m1.away_team_map = away_team_map
                         /\ m1.grid = grid
                         /\ m1.current_id = current_id
                         /\ m1.entered_home_fan_counter = entered_home_fan_counter
                         /\ m1.left_home_fan_counter = left_home_fan_counter
                         /\ m1.entered_away_fan_counter = entered_away_fan_counter
                         /\ m1.left_away_fan_counter = left_away_fan_counter
                         /\ m1.raised = raised

\* an agent activated in the running tick has come out of its transition
\* injured (agents are injected as base or riot), and an agent that can
\* sample a state other than its own is about to be activated
C24_Witness ==
    /\ pc = "step"
    /\ \E b \in BagToSet(agents) :
         /\ ~BagIn(b, agent_buffer)
         /\ b.state = "injured"
         /\ injured_state_map[Rev(b.pos)] >= 1
    /\ \E a \in BagToSet(agent_buffer) :
         /\ BagIn(a, agents)
         /\ a.state = "riot"
         /\ _find_possible_n_available_cells(Model, a) # <<>>

\* First half of C25: when a non-injured agent off the exit row is
\* activated in a cell holding fewer agents than the capacity, samples base
\* or riot, and every other candidate cell has count 0 in the relevant map,
\* the agent stays in its cell.
C25_IsolatedStays ==
    [][\A a \in BagToSet(agent_buffer) :
         (Activated(a) /\ BagIn(a, agents) /\ a.state # "injured"
            /\ a.pos[2] # Height - 1
            /\ grid[a.pos] < MAX_AVAILABLE_AGENT_IN_CELL) =>
            \A b \in AgentsOfTeam(a.team) :
               (/\ Becomes(a, b)
                /\ b.state # "injured"
                /\ \A cell \in Candidates(a) \ {a.pos} :
                      RelevantCount(a, b.state, cell) = 0) =>
                   (b.pos = a.pos)]_vars

\* Second half of C25: an agent that is alone on the grid, off the exit
\* row, keeps its position whenever step() activates an agent.
C25_LoneAgentStays ==
    [][\A a \in BagToSet(agents) :
         (pc = "step" /\ agents = One(a) /\ a.pos[2] # Height - 1) =>
            \E b \in AgentsOfTeam(a.team) : agents' = One(b) /\ b.pos = a.pos]_vars

\* C25: isolated agents do not advance: an activated non-injured agent off
\* the exit row whose cell is not full and whose other candidate cells all
\* have count 0 in the relevant map stays in its cell; consequently an agent
\* alone on the grid never changes position and never reaches the exit row.
C25_IsolatedDoNotAdvance == C25_IsolatedStays /\ C25_LoneAgentStays

====
